---- MODULE Spec2Model ----
(***************************************************************************)
(* Model of the video forensic analysis pipeline: utils.py                 *)
(* (extract_metadata, calculate_hash, analyze_frames) and the Streamlit    *)
(* script app.py that runs them on an uploaded file and renders the report.*)
(***************************************************************************)
EXTENDS Integers, Sequences, FiniteSets, TLC

VARIABLES
    video,       \* the file analyze_frames is called on (what cv2 sees of it)
    threshold,   \* analyze_frames' threshold argument, in hundredths
    af,          \* activation record of analyze_frames (its locals and pc)
    file,        \* the file calculate_hash is called on
    hs,          \* activation record of calculate_hash
    container,   \* the container header extract_metadata is called on
    md,          \* activation record of extract_metadata
    uploaded_file,  \* app.py: the value of the st.file_uploader widget
    session_state,  \* app.py: st.session_state, a map from keys to values
    disk,        \* the temporary files that exist, by path
    app,         \* app.py: position of the script run, and the session's life
    view,        \* app.py: what the last script run rendered
    log          \* history: what happened to each temporary file, scores shown

afVars == <<video, threshold, af>>
hashVars == <<file, hs>>
metaVars == <<container, md>>
appVars == <<uploaded_file, session_state, disk, app, view, log>>
vars == <<video, threshold, af, file, hs, container, md,
          uploaded_file, session_state, disk, app, view, log>>

(***************************************************************************)
(* Bounds of the model.                                                    *)
(***************************************************************************)
MaxFrames == 3

\* calculate_hash is tried on files of up to MaxChunks full chunks and a byte
MaxChunks == 2

\* calls of calculate_hash on the same file
MaxCalls == 2

\* script runs in one session
MaxRuns == 3

(***************************************************************************)
(* Values.                                                                 *)
(***************************************************************************)
\* Python's None for prev_frame; a decoded frame always has at least one pixel.
None == <<>>

\* threshold=0.05, in hundredths
DefaultThreshold == 5

\* the literal of `diff > 25`
IntensityDelta == 25

Abs(x) == IF x < 0 THEN -x ELSE x

Min(a, b) == IF a < b THEN a ELSE b

\* A BGR pixel is <<b, g, r>>, each channel 0..255.
Blue == <<255, 0, 0>>
Gray3 == <<3, 3, 3>>
Gray4 == <<4, 4, 4>>
Black == <<0, 0, 0>>
White == <<255, 255, 255>>

\* The pixel colours the bounded videos are drawn from: their luminances are
\* 29, 4 and 3, so that differences of exactly 25, of 26 and of 1 all occur.
Palette == {Blue, Gray4, Gray3}

\* Frames of the bounded videos: 1 row of 2 pixels, stored row-major.
Frames == [1..2 -> Palette]

\* Thresholds tried, in hundredths: negative, 0, the default, 1/2, above 1.
Thresholds == {-50, 0, DefaultThreshold, 50, 150}

SeqsUpTo(S, n) == UNION {[1..k -> S] : k \in 0..n}

\* What cv2.VideoCapture sees of a file: whether the container opens, the
\* frame count its header reports, and the frames that actually decode (a
\* read past them, or of a corrupt frame, fails).
BoundedVideos ==
    [opened : {TRUE}, frame_count : -1..MaxFrames, frames : SeqsUpTo(Frames, MaxFrames)]
        \cup {[opened |-> FALSE, frame_count |-> 0, frames |-> <<>>]}

\* The 10-frame 2x2 sequence: pixels 0 in frames 0..4 and 255 in frames 5..9.
ScenarioVideo ==
    [opened |-> TRUE, frame_count |-> 10,
     frames |-> [k \in 1..10 |-> [p \in 1..4 |-> IF k <= 5 THEN Black ELSE White]]]

(***************************************************************************)
(* cv2 primitives used by analyze_frames.                                  *)
(***************************************************************************)
\* int(cap.get(cv2.CAP_PROP_FRAME_COUNT)): 0 when the capture is not opened
CapFrameCount(v) == IF v.opened THEN v.frame_count ELSE 0

\* cap.read() as the (n+1)-th read of the capture: ret
CapReadRet(v, n) == v.opened /\ n < Len(v.frames)

\* cap.read() as the (n+1)-th read of the capture: frame
CapReadFrame(v, n) == v.frames[n + 1]

\* cv2.cvtColor(frame, cv2.COLOR_BGR2GRAY) on one 8-bit pixel: fixed-point
\* 0.114 B + 0.587 G + 0.299 R, rounded
GrayPixel(px) == (px[1] * 1868 + px[2] * 9617 + px[3] * 4899 + 8192) \div 16384

cvtColor(frame) == [p \in DOMAIN frame |-> GrayPixel(frame[p])]

\* cv2.absdiff on 8-bit buffers: |a - b| per pixel
absdiff(a, b) == [p \in DOMAIN a |-> Abs(a[p] - b[p])]

\* np.count_nonzero(diff > 25)
CountChanged(diff) == Cardinality({p \in DOMAIN diff : diff[p] > IntensityDelta})

\* ExceedsThreshold with >= for >
ExceedsThreshold_NotStrict(diff, thr) == CountChanged(diff) * 100 >= thr * Len(diff)

\* change_percentage > threshold, with change_percentage = count / diff.size
\* and threshold = thr / 100
ExceedsThreshold(diff, thr) == CountChanged(diff) * 100 > thr * Len(diff)

(***************************************************************************)
(* analyze_frames(video_path, threshold)                                   *)
(***************************************************************************)
AFIdle ==
    [pc |-> "call", frame_count |-> 0, i |-> 0, prev_frame |-> None,
     altered_frames |-> <<>>, reads |-> 0, opened |-> 0, released |-> 0,
     result |-> <<>>]

\* AFEnter with the early return taken for a count of 0 only
AFEnter_OnlyZero(st, v) ==
    LET fc == CapFrameCount(v) IN
    IF fc = 0
    THEN [st EXCEPT !.pc = "done", !.frame_count = fc, !.opened = 1, !.result = <<>>]
    ELSE [st EXCEPT !.pc = "loop", !.frame_count = fc, !.opened = 1,
                    !.altered_frames = <<>>, !.prev_frame = None, !.i = 0]

\* lines 71-78: open the capture, read the frame count, return [] when it
\* is not positive (without releasing the capture), else set up the scan
AFEnter(st, v) ==
    LET fc == CapFrameCount(v) IN
    IF fc <= 0
    THEN [st EXCEPT !.pc = "done", !.frame_count = fc, !.opened = 1, !.result = <<>>]
    ELSE [st EXCEPT !.pc = "loop", !.frame_count = fc, !.opened = 1,
                    !.altered_frames = <<>>, !.prev_frame = None, !.i = 0]

\* Flagged without the test that a previous frame exists
Flagged_NoPrevGuard(altered, prev, gray, idx, thr) ==
    IF prev = None \/ ExceedsThreshold(absdiff(gray, prev), thr)
    THEN Append(altered, idx)
    ELSE altered

\* lines 89-98: the indices flagged so far, after comparing frame i
Flagged(altered, prev, gray, idx, thr) ==
    IF prev # None /\ ExceedsThreshold(absdiff(gray, prev), thr)
    THEN Append(altered, idx)
    ELSE altered

\* AFIterate that keeps the first frame as prev_frame instead of the last
AFIterate_KeepsFirstFrame(st, v, thr) ==
    LET gray_frame == cvtColor(CapReadFrame(v, st.reads)) IN
    [st EXCEPT !.reads = st.reads + 1,
               !.altered_frames = Flagged(st.altered_frames, st.prev_frame, gray_frame, st.i, thr),
               !.prev_frame = IF st.prev_frame = None THEN gray_frame ELSE st.prev_frame,
               !.i = st.i + 1]

\* AFIterate that leaves prev_frame alone when the frame was flagged, so the
\* next frame is compared with the last frame that was not flagged
AFIterate_HoldsPrevOnFlag(st, v, thr) ==
    LET gray_frame == cvtColor(CapReadFrame(v, st.reads))
        flagged == Flagged(st.altered_frames, st.prev_frame, gray_frame, st.i, thr) IN
    [st EXCEPT !.reads = st.reads + 1,
               !.altered_frames = flagged,
               !.prev_frame = IF flagged # st.altered_frames THEN st.prev_frame ELSE gray_frame,
               !.i = st.i + 1]

\* lines 80-100: one iteration of the loop whose read succeeds
AFIterate(st, v, thr) ==
    LET gray_frame == cvtColor(CapReadFrame(v, st.reads)) IN
    [st EXCEPT !.reads = st.reads + 1,
               !.altered_frames = Flagged(st.altered_frames, st.prev_frame, gray_frame, st.i, thr),
               !.prev_frame = gray_frame,
               !.i = st.i + 1]

\* AFBreak that gives up the indices found so far
AFBreak_DropsResult(st) ==
    [st EXCEPT !.pc = "done", !.reads = st.reads + 1, !.released = 1, !.result = <<>>]

\* lines 81-84 and 102-103: the read fails, the loop breaks, the capture is
\* released and the list returned
AFBreak(st) ==
    [st EXCEPT !.pc = "done", !.reads = st.reads + 1, !.released = 1,
               !.result = st.altered_frames]

\* lines 80 and 102-103: range(frame_count) is exhausted
AFFinish(st) ==
    [st EXCEPT !.pc = "done", !.released = 1, !.result = st.altered_frames]

AF_Enter ==
    /\ af.pc = "call"
    /\ af' = AFEnter(af, video)
    /\ UNCHANGED <<video, threshold, hashVars, metaVars, appVars>>

AF_Iterate ==
    /\ af.pc = "loop"
    /\ af.i < af.frame_count
    /\ CapReadRet(video, af.reads)
    /\ af' = AFIterate(af, video, threshold)
    /\ UNCHANGED <<video, threshold, hashVars, metaVars, appVars>>

AF_Break ==
    /\ af.pc = "loop"
    /\ af.i < af.frame_count
    /\ ~CapReadRet(video, af.reads)
    /\ af' = AFBreak(af)
    /\ UNCHANGED <<video, threshold, hashVars, metaVars, appVars>>

AF_Finish ==
    /\ af.pc = "loop"
    /\ af.i >= af.frame_count
    /\ af' = AFFinish(af)
    /\ UNCHANGED <<video, threshold, hashVars, metaVars, appVars>>

RECURSIVE AFRun(_, _, _)
\* the call run to its return
AFRun(st, v, thr) ==
    IF st.pc = "call" THEN AFRun(AFEnter(st, v), v, thr)
    ELSE IF st.pc = "done" THEN st
    ELSE IF st.i >= st.frame_count THEN AFFinish(st)
    ELSE IF CapReadRet(v, st.reads) THEN AFRun(AFIterate(st, v, thr), v, thr)
    ELSE AFBreak(st)

AnalyzeFrames(v, thr) == AFRun(AFIdle, v, thr).result

(***************************************************************************)
(* calculate_hash(video_path)                                              *)
(***************************************************************************)
\* f.read(4096)
ChunkSize == 4096

RECURSIVE PowMod(_, _)
\* b^e modulo 32749
PowMod(b, e) ==
    IF e = 0 THEN 1
    ELSE LET half == PowMod(b, e \div 2)
             sq == (half * half) % 32749
         IN IF e % 2 = 0 THEN sq ELSE (sq * b) % 32749

RECURSIVE PolyHash(_, _, _)
\* sum of s[k] * 31^(hi - k) for k in lo..hi, modulo 32749
PolyHash(s, lo, hi) ==
    IF lo > hi THEN 0
    ELSE IF lo = hi THEN s[lo] % 32749
    ELSE LET mid == (lo + hi) \div 2
         IN (PolyHash(s, lo, mid) * PowMod(31, hi - mid) + PolyHash(s, mid + 1, hi)) % 32749

\* hashlib.md5(): the digest object is modelled by an incremental
\* order-sensitive polynomial hash h of the bytes absorbed and their number n
md5New == [h |-> 1, n |-> 0]

\* hash_md5.update(chunk): absorbs the bytes of chunk after those absorbed
md5Update(d, chunk) ==
    [h |-> (d.h * PowMod(31, Len(chunk)) + PolyHash(chunk, 1, Len(chunk))) % 32749,
     n |-> (d.n + Len(chunk)) % 65536]

HexDigit(x) == <<"0","1","2","3","4","5","6","7","8","9","a","b","c","d","e","f">>[x + 1]

\* four lowercase hex digits of x in 0..65535, most significant first
Hex4(x) ==
    <<HexDigit((x \div 4096) % 16), HexDigit((x \div 256) % 16),
      HexDigit((x \div 16) % 16), HexDigit(x % 16)>>

\* hash_md5.hexdigest(): lowercase hex string of fixed length
hexdigest(d) == Hex4(d.h) \o Hex4(d.n)

\* f.read(4096) at offset pos of a regular file: up to ChunkSize bytes,
\* fewer only at the end of the file, b'' at the end
FRead(bytes, pos) == SubSeq(bytes, pos + 1, Min(pos + ChunkSize, Len(bytes)))

HashIdle ==
    [pc |-> "call", pos |-> 0, hash_md5 |-> md5New, fed |-> <<>>, reads |-> 0,
     updates |-> 0, f_open |-> FALSE, result |-> <<>>]

\* lines 54-55: new digest object, open(video_path, 'rb'); a missing file raises
HashEnter(st, f) ==
    IF f.exists
    THEN [HashIdle EXCEPT !.pc = "loop", !.f_open = TRUE]
    ELSE [HashIdle EXCEPT !.pc = "raised"]

\* lines 56-57: one non-empty chunk read and folded into the digest
\* (fed is the history of the bytes handed to update)
HashUpdate(st, f) ==
    LET chunk == FRead(f.bytes, st.pos) IN
    [st EXCEPT !.pos = st.pos + Len(chunk),
               !.reads = st.reads + 1,
               !.updates = st.updates + 1,
               !.hash_md5 = md5Update(st.hash_md5, chunk),
               !.fed = st.fed \o chunk]

\* lines 56 and 58: the read returns b'', iter stops, the with block closes
\* the file, the hex digest is returned
HashReturn(st) ==
    [st EXCEPT !.pc = "done", !.reads = st.reads + 1, !.f_open = FALSE,
               !.result = hexdigest(st.hash_md5)]

\* HashAtSentinel that stops at the first short read
HashAtSentinel_ShortRead(st, f) == Len(FRead(f.bytes, st.pos)) < ChunkSize

\* the sentinel test of iter(lambda: f.read(4096), b'')
HashAtSentinel(st, f) == FRead(f.bytes, st.pos) = <<>>

Hash_Enter ==
    /\ hs.st.pc = "call"
    /\ hs' = [hs EXCEPT !.st = HashEnter(hs.st, file)]
    /\ UNCHANGED <<file, afVars, metaVars, appVars>>

Hash_Update ==
    /\ hs.st.pc = "loop"
    /\ ~HashAtSentinel(hs.st, file)
    /\ hs' = [hs EXCEPT !.st = HashUpdate(hs.st, file)]
    /\ UNCHANGED <<file, afVars, metaVars, appVars>>

Hash_Return ==
    /\ hs.st.pc = "loop"
    /\ HashAtSentinel(hs.st, file)
    /\ hs' = [hs EXCEPT !.st = HashReturn(hs.st),
                        !.digests = hs.digests \cup {hexdigest(hs.st.hash_md5)}]
    /\ UNCHANGED <<file, afVars, metaVars, appVars>>

\* the caller computes the hash of the same file again
Hash_Again ==
    /\ hs.st.pc = "done"
    /\ hs.calls < MaxCalls
    /\ hs' = [hs EXCEPT !.st = HashIdle, !.calls = hs.calls + 1]
    /\ UNCHANGED <<file, afVars, metaVars, appVars>>

\* byte k of a generated file: affine in k, so that chunks differ
PatternBytes(n, a, b) == [k \in 1..n |-> (a * k + b) % 256]

FileSizes ==
    {0, 1, 2} \cup UNION {{c * ChunkSize - 1, c * ChunkSize, c * ChunkSize + 1} : c \in 1..MaxChunks}

HashFiles ==
    {[exists |-> TRUE, bytes |-> PatternBytes(n, a, b)] : n \in FileSizes, a \in {0, 1, 7}, b \in {0, 255}}
        \cup {[exists |-> FALSE, bytes |-> <<>>]}

HashStart == [st |-> HashIdle, calls |-> 1, digests |-> {}]

RECURSIVE HashRun(_, _)
\* the call run to its return (or to the exception of open)
HashRun(st, f) ==
    IF st.pc = "call" THEN HashRun(HashEnter(st, f), f)
    ELSE IF st.pc # "loop" THEN st
    ELSE IF HashAtSentinel(st, f) THEN HashReturn(st)
    ELSE HashRun(HashUpdate(st, f), f)

CalculateHash(f) == HashRun(HashIdle, f).result

(***************************************************************************)
(* extract_metadata(video_path)                                            *)
(***************************************************************************)
RECURSIVE Decimal(_)
\* str(n) of an integer: its decimal digits, with a sign when negative
Decimal(n) ==
    LET digit(d) == <<"0","1","2","3","4","5","6","7","8","9">>[d + 1] IN
    IF n < 0 THEN <<"-">> \o Decimal(-n)
    ELSE IF n < 10 THEN <<digit(n)>>
    ELSE Decimal(n \div 10) \o <<digit(n % 10)>>

\* f"{frame_width}x{frame_height}"
Resolution(w, h) == Decimal(w) \o <<"x">> \o Decimal(h)

\* line 32: chr() of the four bytes of the tag, least significant first
\* (a character is modelled by its code point)
FourccChars(fourcc_int) ==
    <<fourcc_int % 256, (fourcc_int \div 256) % 256,
      (fourcc_int \div 65536) % 256, (fourcc_int \div 16777216) % 256>>

\* lines 36-39: frame_count / fps as the fraction num/den (fps is kept in
\* hundredths of a frame per second), 0 when fps is not positive
Duration(frame_count, fps) ==
    IF fps > 0
    THEN [num |-> frame_count * 100, den |-> fps]
    ELSE [num |-> 0, den |-> 1]

MetaIdle == [pc |-> "call", opened |-> 0, released |-> 0, result |-> <<>>]

\* lines 16-20: open the capture; an unopened one returns the error dict
\* (without releasing the capture)
MetaEnter(st, c) ==
    IF ~c.opened
    THEN [st EXCEPT !.pc = "done", !.opened = 1,
                    !.result = [error |-> "Failed to open video file"]]
    ELSE [st EXCEPT !.pc = "read", !.opened = 1]

\* lines 22-42: read the properties, derive resolution, codec and duration,
\* release the capture and return the dict
MetaRead(st, c) ==
    [st EXCEPT !.pc = "done", !.released = 1,
               !.result = [frame_count |-> c.frame_count,
                           frame_width |-> c.frame_width,
                           frame_height |-> c.frame_height,
                           fps |-> c.fps,
                           resolution |-> Resolution(c.frame_width, c.frame_height),
                           codec |-> FourccChars(c.fourcc),
                           duration_seconds |-> Duration(c.frame_count, c.fps)]]

\* the whole call
ExtractMetadata(c) ==
    LET st == MetaEnter(MetaIdle, c) IN
    IF st.pc = "done" THEN st.result ELSE MetaRead(st, c).result

Meta_Enter ==
    /\ md.pc = "call"
    /\ md' = MetaEnter(md, container)
    /\ UNCHANGED <<container, afVars, hashVars, appVars>>

Meta_Read ==
    /\ md.pc = "read"
    /\ md' = MetaRead(md, container)
    /\ UNCHANGED <<container, afVars, hashVars, appVars>>

\* 'avc1', 'mp4v', 'XVID', a tag of four NUL bytes
FourccTags == {828601953, 1983148141, 1145656920, 0}

\* What cv2.VideoCapture reports of a container header; fps in hundredths.
\* A capture that did not open reports 0 for every property.
Containers ==
    [opened : {TRUE}, frame_count : -1..MaxFrames, frame_width : {2, 1920},
     frame_height : {1, 1080}, fps : {0, 2500, 2997}, fourcc : FourccTags]
        \cup {[opened |-> FALSE, frame_count |-> 0, frame_width |-> 0,
               frame_height |-> 0, fps |-> 0, fourcc |-> 0]}

(***************************************************************************)
(* app.py: one Streamlit session.  Every user interaction reruns the       *)
(* script from top to bottom; an uncaught exception ends the script run.   *)
(***************************************************************************)
\* uploaded_file is None: no file in the widget (else <<u>>)
NoFile == <<>>

AppFrameA == [p \in 1..2 |-> Gray3]
AppFrameB == [p \in 1..2 |-> Blue]

\* a container that opens: its bytes, the frame count and fps of its header
\* (fps in hundredths) and the frames that decode
Clip(bytes, frame_count, fps, frames) ==
    [name |-> "clip.mp4", bytes |-> bytes, opened |-> TRUE, frame_count |-> frame_count,
     frame_width |-> 2, frame_height |-> 1, fps |-> fps, fourcc |-> 828601953,
     frames |-> frames]

\* a file cv2 cannot open: every property reads 0
Unopened(bytes) ==
    [name |-> "empty.mp4", bytes |-> bytes, opened |-> FALSE, frame_count |-> 0,
     frame_width |-> 0, frame_height |-> 0, fps |-> 0, fourcc |-> 0, frames |-> <<>>]

\* Files a user uploads: a still clip, a clip with one cut, a flickering
\* clip, a clip whose last frame does not decode, a clip whose header gives
\* no fps, a single frame, headers with no frames, a zero-byte file and a
\* file that is no video.
AppUploads ==
    {Clip(<<7>>, 3, 2500, <<AppFrameA, AppFrameA, AppFrameA>>),
     Clip(<<7, 8>>, 3, 2500, <<AppFrameA, AppFrameA, AppFrameB>>),
     Clip(<<8>>, 3, 2500, <<AppFrameA, AppFrameB, AppFrameA>>),
     Clip(<<8, 7>>, 3, 2500, <<AppFrameA, AppFrameB>>),
     Clip(<<9>>, 2, 0, <<AppFrameA, AppFrameB>>),
     Clip(<<9, 9>>, 1, 2500, <<AppFrameA>>),
     Clip(<<6>>, 0, 2500, <<>>),
     Clip(<<6, 6>>, 0, 0, <<>>),
     Unopened(<<>>),
     Unopened(<<5>>)}

\* the file at a path, as open() sees it
AsFile(d, path) ==
    IF path \in DOMAIN d THEN [exists |-> TRUE, bytes |-> d[path].bytes]
    ELSE [exists |-> FALSE, bytes |-> <<>>]

\* lines 101-108: the report dict (the timestamp is the number of the run)
Report(u, metadata, video_hash, altered_frames, now) ==
    [filename |-> u.name, filesize |-> Len(u.bytes), metadata |-> metadata,
     hash |-> video_hash, altered_frames |-> altered_frames,
     analysis_timestamp |-> now]

\* st.session_state[key] = value
SetItem(ss, key, value) ==
    [k \in DOMAIN ss \cup {key} |-> IF k = key THEN value ELSE ss[k]]

\* IntegrityScore that gives the share of altered frames
IntegrityScore_AlteredShare(n_altered, frame_count) ==
    IF n_altered > 0
    THEN [num |-> 100 * n_altered, den |-> Abs(frame_count)]
    ELSE [num |-> 100, den |-> 1]

\* IntegrityScore that counts frame 0 among the altered frames
IntegrityScore_CountsFirstFrame(n_altered, frame_count) ==
    IF n_altered > 0
    THEN LET num == IF frame_count > 0 THEN 100 * frame_count - 100 * (n_altered + 1)
                    ELSE 100 * (n_altered + 1) - 100 * frame_count
             den == Abs(frame_count)
         IN IF num < 0 THEN [num |-> 0, den |-> 1] ELSE [num |-> num, den |-> den]
    ELSE [num |-> 100, den |-> 1]

\* lines 195-199: the integrity score of a report as the fraction num/den;
\* 100 - len(altered_frames) / frame_count * 100, clamped at 0 from below
IntegrityScore(n_altered, frame_count) ==
    IF n_altered > 0
    THEN LET num == IF frame_count > 0 THEN 100 * frame_count - 100 * n_altered
                    ELSE 100 * n_altered - 100 * frame_count
             den == Abs(frame_count)
         IN IF num < 0 THEN [num |-> 0, den |-> 1] ELSE [num |-> num, den |-> den]
    ELSE [num |-> 100, den |-> 1]

NoView == [duration |-> <<>>, integrity_score |-> <<>>]

\* a user interaction that leaves the uploader alone: the script reruns
User_Interact ==
    /\ app.pc = "idle" /\ ~app.ended /\ app.runs < MaxRuns
    /\ app' = [app EXCEPT !.pc = "tab1", !.runs = app.runs + 1, !.raised = "none"]
    /\ view' = NoView
    /\ UNCHANGED <<uploaded_file, session_state, disk, log, afVars, hashVars, metaVars>>

\* the user puts a file into the uploader: the script reruns
User_Upload ==
    /\ app.pc = "idle" /\ ~app.ended /\ app.runs < MaxRuns
    /\ \E u \in AppUploads : uploaded_file' = <<u>>
    /\ app' = [app EXCEPT !.pc = "tab1", !.runs = app.runs + 1, !.raised = "none"]
    /\ view' = NoView
    /\ UNCHANGED <<session_state, disk, log, afVars, hashVars, metaVars>>

\* the user removes the file from the uploader: the script reruns
User_Clear ==
    /\ app.pc = "idle" /\ ~app.ended /\ app.runs < MaxRuns
    /\ uploaded_file # NoFile
    /\ uploaded_file' = NoFile
    /\ app' = [app EXCEPT !.pc = "tab1", !.runs = app.runs + 1, !.raised = "none"]
    /\ view' = NoView
    /\ UNCHANGED <<session_state, disk, log, afVars, hashVars, metaVars>>

\* lines 74-118: with a file in the uploader, copy it to a new temporary
\* file, run the three analyses on the copy, store report and path
Tab1_Analyze ==
    /\ app.pc = "tab1"
    /\ uploaded_file # NoFile
    /\ LET u == uploaded_file[1]
           video_path == app.next_tmp
           d == [p \in DOMAIN disk \cup {video_path} |->
                    IF p = video_path THEN u ELSE disk[p]]
           metadata == ExtractMetadata(d[video_path])
           video_hash == CalculateHash(AsFile(d, video_path))
           altered_frames == AnalyzeFrames(d[video_path], DefaultThreshold)
           report == Report(u, metadata, video_hash, altered_frames, app.runs)
       IN /\ disk' = d
          /\ session_state' =
                 SetItem(SetItem(session_state, "report", report), "video_path", video_path)
          /\ log' = [log EXCEPT !.created = log.created \cup {video_path}]
          /\ app' = [app EXCEPT !.pc = "tab2", !.next_tmp = app.next_tmp + 1]
    /\ UNCHANGED <<uploaded_file, view, afVars, hashVars, metaVars>>

\* line 74: no file in the uploader
Tab1_Skip ==
    /\ app.pc = "tab1"
    /\ uploaded_file = NoFile
    /\ app' = [app EXCEPT !.pc = "tab2"]
    /\ UNCHANGED <<uploaded_file, session_state, disk, view, log, afVars, hashVars, metaVars>>

\* lines 124-161: the results tab; line 140 reads metadata['frame_count']
\* and metadata['fps'] and divides the one by the other
Tab2_Results ==
    /\ app.pc = "tab2"
    /\ "report" \in DOMAIN session_state
    /\ LET metadata == session_state["report"].metadata IN
       IF "frame_count" \notin DOMAIN metadata
       THEN /\ app' = [app EXCEPT !.pc = "idle", !.raised = "KeyError"]
            /\ view' = view
       ELSE IF metadata.fps = 0
       THEN /\ app' = [app EXCEPT !.pc = "idle", !.raised = "ZeroDivisionError"]
            /\ view' = view
       ELSE /\ app' = [app EXCEPT !.pc = "tab3"]
            /\ view' = [view EXCEPT !.duration =
                           <<[num |-> metadata.frame_count * 100, den |-> metadata.fps]>>]
    /\ UNCHANGED <<uploaded_file, session_state, disk, log, afVars, hashVars, metaVars>>

\* lines 163-164: no report yet
Tab2_Info ==
    /\ app.pc = "tab2"
    /\ "report" \notin DOMAIN session_state
    /\ app' = [app EXCEPT !.pc = "tab3"]
    /\ UNCHANGED <<uploaded_file, session_state, disk, view, log, afVars, hashVars, metaVars>>

\* lines 167-216: the report tab; lines 194-199 compute the integrity score
Tab3_Report ==
    /\ app.pc = "tab3"
    /\ "report" \in DOMAIN session_state
    /\ LET report == session_state["report"]
           n == Len(report.altered_frames)
       IN IF n > 0 /\ "frame_count" \notin DOMAIN report.metadata
          THEN /\ app' = [app EXCEPT !.pc = "idle", !.raised = "KeyError"]
               /\ UNCHANGED <<view, log>>
          ELSE IF n > 0 /\ report.metadata.frame_count = 0
          THEN /\ app' = [app EXCEPT !.pc = "idle", !.raised = "ZeroDivisionError"]
               /\ UNCHANGED <<view, log>>
          ELSE LET fc == IF n > 0 THEN report.metadata.frame_count ELSE 0
                   score == IntegrityScore(n, fc)
               IN /\ app' = [app EXCEPT !.pc = "cleanup"]
                  /\ view' = [view EXCEPT !.integrity_score = <<score>>]
                  /\ log' = [log EXCEPT !.scored = log.scored \cup
                         {[altered |-> n, frame_count |-> report.metadata.frame_count,
                           score |-> score]}]
    /\ UNCHANGED <<uploaded_file, session_state, disk, afVars, hashVars, metaVars>>

\* lines 218-219: no report yet
Tab3_Info ==
    /\ app.pc = "tab3"
    /\ "report" \notin DOMAIN session_state
    /\ app' = [app EXCEPT !.pc = "cleanup"]
    /\ UNCHANGED <<uploaded_file, session_state, disk, view, log, afVars, hashVars, metaVars>>

\* log.unlinks[path] + 1
CountUnlink(l, path, removed) ==
    [l EXCEPT !.unlinks = [p \in DOMAIN l.unlinks \cup {path} |->
                             (IF p \in DOMAIN l.unlinks THEN l.unlinks[p] ELSE 0)
                               + (IF p = path THEN 1 ELSE 0)],
              !.removed = [p \in DOMAIN l.removed \cup {path} |->
                             (IF p \in DOMAIN l.removed THEN l.removed[p] ELSE 0)
                               + (IF p = path /\ removed THEN 1 ELSE 0)]]

\* lines 482-484: the end of the script; os.unlink removes the file
Cleanup_Unlink ==
    /\ app.pc = "cleanup"
    /\ "video_path" \in DOMAIN session_state
    /\ session_state["video_path"] \in DOMAIN disk
    /\ disk' = [p \in DOMAIN disk \ {session_state["video_path"]} |-> disk[p]]
    /\ log' = CountUnlink(log, session_state["video_path"], TRUE)
    /\ app' = [app EXCEPT !.pc = "idle"]
    /\ UNCHANGED <<uploaded_file, session_state, view, afVars, hashVars, metaVars>>

\* lines 482-486: os.unlink raises (the file is gone already, or the system
\* refuses); the bare except swallows the error
Cleanup_Swallow ==
    /\ app.pc = "cleanup"
    /\ "video_path" \in DOMAIN session_state
    /\ log' = CountUnlink(log, session_state["video_path"], FALSE)
    /\ app' = [app EXCEPT !.pc = "idle", !.swallowed = app.swallowed + 1]
    /\ UNCHANGED <<uploaded_file, session_state, disk, view, afVars, hashVars, metaVars>>

\* line 482: no path stored yet
Cleanup_Skip ==
    /\ app.pc = "cleanup"
    /\ "video_path" \notin DOMAIN session_state
    /\ app' = [app EXCEPT !.pc = "idle"]
    /\ UNCHANGED <<uploaded_file, session_state, disk, view, log, afVars, hashVars, metaVars>>

\* the browser tab closes: Streamlit drops the session and its
\* session_state; no line of app.py runs
Session_End ==
    /\ app.pc = "idle" /\ ~app.ended
    /\ app' = [app EXCEPT !.ended = TRUE]
    /\ session_state' = <<>>
    /\ UNCHANGED <<uploaded_file, disk, view, log, afVars, hashVars, metaVars>>

(***************************************************************************)
(* Specifications: one per program entry point.                            *)
(***************************************************************************)
IdleFrames ==
    /\ video = [opened |-> FALSE, frame_count |-> 0, frames |-> <<>>]
    /\ threshold = DefaultThreshold /\ af = AFIdle

IdleHash == file = [exists |-> TRUE, bytes |-> <<>>] /\ hs = HashStart

IdleMeta == container = [opened |-> FALSE, frame_count |-> 0, frame_width |-> 0,
                         frame_height |-> 0, fps |-> 0, fourcc |-> 0]
            /\ md = MetaIdle

AppStart == [pc |-> "idle", runs |-> 0, ended |-> FALSE, raised |-> "none",
             next_tmp |-> 1, swallowed |-> 0]

LogStart == [created |-> {}, unlinks |-> <<>>, removed |-> <<>>, scored |-> {}]

IdleApp ==
    /\ uploaded_file = NoFile /\ session_state = <<>> /\ disk = <<>>
    /\ app = AppStart /\ view = NoView /\ log = LogStart

InitFrames ==
    /\ \/ video \in BoundedVideos /\ threshold \in Thresholds
       \/ video = ScenarioVideo /\ threshold = DefaultThreshold
    /\ af = AFIdle
    /\ IdleHash /\ IdleMeta /\ IdleApp

NextFrames == AF_Enter \/ AF_Iterate \/ AF_Break \/ AF_Finish

SpecFrames == InitFrames /\ [][NextFrames]_vars

InitHash ==
    /\ file \in HashFiles
    /\ hs = HashStart
    /\ IdleFrames /\ IdleMeta /\ IdleApp

NextHash == Hash_Enter \/ Hash_Update \/ Hash_Return \/ Hash_Again

SpecHash == InitHash /\ [][NextHash]_vars

InitMeta ==
    /\ container \in Containers
    /\ md = MetaIdle
    /\ IdleFrames /\ IdleHash /\ IdleApp

NextMeta == Meta_Enter \/ Meta_Read

SpecMeta == InitMeta /\ [][NextMeta]_vars

InitApp == IdleApp /\ IdleFrames /\ IdleHash /\ IdleMeta

NextApp ==
    \/ User_Interact \/ User_Upload \/ User_Clear
    \/ Tab1_Analyze \/ Tab1_Skip
    \/ Tab2_Results \/ Tab2_Info
    \/ Tab3_Report \/ Tab3_Info
    \/ Cleanup_Unlink \/ Cleanup_Swallow \/ Cleanup_Skip
    \/ Session_End

SpecApp == InitApp /\ [][NextApp]_vars
(***************************************************************************)
(* Properties.  Frame index i (from 0) is video.frames[i + 1].             *)
(***************************************************************************)
StrictlyIncreasing(q) == \A a, b \in DOMAIN q : a < b => q[a] < q[b]

Range(q) == {q[k] : k \in DOMAIN q}

\* luminance of pixel p of frame index idx
Lum(v, idx, p) == GrayPixel(v.frames[idx + 1][p])

\* pixels of frame idx whose luminance differs from frame idx - 1 by more than d
PixelsOver(v, idx, d) ==
    {p \in DOMAIN v.frames[idx + 1] : Abs(Lum(v, idx, p) - Lum(v, idx - 1, p)) > d}

\* the fraction of pixels of frame idx that differ from frame idx - 1 by
\* more than 25 is greater than thr / 100
JumpAt(v, idx, thr) ==
    Cardinality(PixelsOver(v, idx, 25)) * 100 > thr * Len(v.frames[idx + 1])

\* the transitions among the first n frames that jump
Jumps(v, n, thr) == {idx \in 1..(n - 1) : JumpAt(v, idx, thr)}

\* q lists exactly the set S in increasing order
ListsInOrder(q, S) == StrictlyIncreasing(q) /\ Range(q) = S /\ Len(q) = Cardinality(S)

\* C1: at every point of analyze_frames, and in what it returns, the list of
\* altered frames is strictly increasing and each element lies in
\* 1..frame_count - 1, so index 0 never appears.
C1_AlteredIncreasingInRange ==
    /\ StrictlyIncreasing(af.altered_frames)
    /\ \A k \in DOMAIN af.altered_frames :
          af.altered_frames[k] >= 1 /\ af.altered_frames[k] <= af.frame_count - 1
    /\ af.pc = "done" =>
          /\ StrictlyIncreasing(af.result)
          /\ \A k \in DOMAIN af.result :
                af.result[k] >= 1 /\ af.result[k] <= CapFrameCount(video) - 1

\* C1 witness: a finished scan that returned two indices, the first frame
\* having differed in content from the second.
C1_Witness ==
    /\ af.pc = "done" /\ Len(af.result) >= 2
    /\ af.result[1] = 1

\* C2: when every one of the N = frame_count frames decodes, the returned
\* list is exactly the indices i of 1..N-1 at which the fraction of pixels
\* differing by more than 25 from frame i-1 exceeds the threshold; the
\* 10-frame sequence that flips from 0 to 255 at frame 5 gives [5].
C2_ExactJumps ==
    /\ (af.pc = "done" /\ video.opened /\ video.frame_count > 0
            /\ Len(video.frames) >= video.frame_count)
          => ListsInOrder(af.result, Jumps(video, video.frame_count, threshold))
    /\ (af.pc = "done" /\ video = ScenarioVideo) => af.result = <<5>>

\* C2 witness: the scan of the 10-frame sequence has finished with [5].
C2_Witness == af.pc = "done" /\ video = ScenarioVideo /\ af.result = <<5>>

\* C3: a transition already compared is not flagged when the fraction of
\* pixels differing by more than 25 equals the threshold, nor when only
\* counting the pixels that differ by exactly 25 as changed would take the
\* fraction over the threshold.
C3_StrictComparisons ==
    \A idx \in 1..(af.i - 1) :
        LET size == Len(video.frames[idx + 1])
            over == Cardinality(PixelsOver(video, idx, 25))
            atLeast == Cardinality(PixelsOver(video, idx, 24))
        IN /\ over * 100 = threshold * size => idx \notin Range(af.altered_frames)
           /\ (over * 100 <= threshold * size /\ atLeast * 100 > threshold * size)
                 => idx \notin Range(af.altered_frames)

\* C3 witness: after a transition in which one of two pixels changed by 26
\* and the other by exactly 25, at threshold 1/2, the transition is not
\* flagged.
C3_Witness ==
    /\ af.i >= 2 /\ threshold = 50
    /\ Cardinality(PixelsOver(video, 1, 25)) = 1
    /\ Cardinality(PixelsOver(video, 1, 24)) = 2
    /\ 1 \notin Range(af.altered_frames)

\* C4: when the container reports a frame count of 0 or less (a file that
\* does not open reports 0), analyze_frames, once entered, has returned the
\* empty list and has read no frame.
C4_NoFramesNoDecode ==
    (CapFrameCount(video) <= 0 /\ af.pc # "call")
        => af.pc = "done" /\ af.result = <<>> /\ af.reads = 0

\* C4 witness: a container with decodable frames whose header reports a
\* negative count has been analysed.
C4_Witness ==
    /\ video.opened /\ video.frame_count < 0 /\ Len(video.frames) > 0
    /\ af.pc = "done" /\ af.result = <<>>

\* C5: when frame k < frame_count is the first that fails to decode, the scan
\* ends having tried k + 1 reads and no more, and returns exactly the jumps
\* among frames 0..k-1.
C5_PartialOnDecodeFailure ==
    (af.pc = "done" /\ video.opened /\ video.frame_count > 0
        /\ Len(video.frames) < video.frame_count)
        => /\ af.i = Len(video.frames)
           /\ af.reads = Len(video.frames) + 1
           /\ ListsInOrder(af.result, Jumps(video, Len(video.frames), threshold))

\* C5 witness: a scan stopped by a decode failure at frame 2 returned [1].
C5_Witness ==
    /\ af.pc = "done" /\ video.opened /\ video.frame_count > 2
    /\ Len(video.frames) = 2 /\ af.result = <<1>>

\* a <= b for fractions with positive denominators
FracLeq(a, b) == a.num * b.den <= b.num * a.den

\* C6: of the integrity scores the report tab has shown, a score is 100
\* exactly when the report had no altered frame, none is negative, and of two
\* reports with the same frame count the one with more altered frames has
\* the lower or equal score.
C6_IntegrityScore ==
    /\ \A e \in log.scored :
          /\ e.score.den > 0
          /\ (e.score.num = 100 * e.score.den) <=> (e.altered = 0)
          /\ e.score.num >= 0
    /\ \A e1, e2 \in log.scored :
          (e1.frame_count = e2.frame_count /\ e1.altered <= e2.altered)
              => FracLeq(e2.score, e1.score)
    /\ \A k \in DOMAIN view.integrity_score :
          \E e \in log.scored : e.score = view.integrity_score[k]

\* C6 witness: the session has shown scores for reports of the same frame
\* count with no, one and two altered frames.
C6_Witness ==
    \E e0, e1, e2 \in log.scored :
        /\ e0.altered = 0 /\ e1.altered = 1 /\ e2.altered = 2
        /\ e0.frame_count = e1.frame_count /\ e1.frame_count = e2.frame_count

\* C7: no script run ends in a division by zero, a report whose fps is 0
\* has its duration shown as 0, and no duration stored or shown is negative.
C7_DurationGuarded ==
    /\ app.raised # "ZeroDivisionError"
    /\ ("report" \in DOMAIN session_state /\ app.pc \in {"tab3", "cleanup"}
          /\ "fps" \in DOMAIN session_state["report"].metadata
          /\ session_state["report"].metadata.fps = 0)
          => view.duration = <<[num |-> 0, den |-> 1]>>
    /\ \A k \in DOMAIN view.duration : view.duration[k].num >= 0
    /\ ("report" \in DOMAIN session_state
          /\ "duration_seconds" \in DOMAIN session_state["report"].metadata)
          => session_state["report"].metadata.duration_seconds.num >= 0

\* a codec tag one of whose four bytes is no printable character
UnreadableTag(fourcc_int) == \E k \in 1..4 : FourccChars(fourcc_int)[k] \notin 32..126

MetadataFields ==
    {"frame_count", "frame_width", "frame_height", "fps", "resolution", "codec",
     "duration_seconds"}

\* C8: extract_metadata returns the failure value when the container does not
\* open, reports zero frames or has an unreadable codec tag, and otherwise a
\* record with every metadata field.
C8_ThreeFailures ==
    md.pc = "done" =>
        IF ~container.opened \/ container.frame_count = 0 \/ UnreadableTag(container.fourcc)
        THEN "error" \in DOMAIN md.result
        ELSE DOMAIN md.result = MetadataFields

\* number of update calls a file of n bytes takes
ChunksOf(n) == (n + ChunkSize - 1) \div ChunkSize

\* C9: calculate_hash on an existing file never raises; when it returns, the
\* bytes handed to the digest are the file's bytes, once each and in order,
\* in ceil(size / 4096) chunks followed by one empty read; the result is
\* the digest of the whole byte sequence, the same on every call, and for a
\* zero-byte file the digest of the empty sequence.
C9_HashOfWholeFile ==
    /\ file.exists => hs.st.pc # "raised"
    /\ hs.st.pc = "done" =>
          /\ hs.st.fed = file.bytes
          /\ hs.st.updates = ChunksOf(Len(file.bytes))
          /\ hs.st.reads = hs.st.updates + 1
          /\ hs.st.result = hexdigest(md5Update(md5New, file.bytes))
          /\ hs.digests = {hs.st.result}
          /\ file.bytes = <<>> => hs.st.result = hexdigest(md5New)

\* C9 witness: the second call on a file of two chunks and a byte returned.
C9_Witness ==
    /\ hs.st.pc = "done" /\ hs.calls = 2
    /\ Len(file.bytes) = 2 * ChunkSize + 1
    /\ hs.st.updates = 3

\* C10: a temporary copy is off the disk only once the session has ended,
\* and then every copy is; the copy the session's report refers to exists;
\* os.unlink is tried at most once on a copy; a swallowed failure leaves the
\* script run without exception.
C10_TempDeletedOnceAtTeardown ==
    /\ \A p \in log.created : p \notin DOMAIN disk => app.ended
    /\ app.ended => \A p \in log.created : p \notin DOMAIN disk
    /\ ("video_path" \in DOMAIN session_state /\ "report" \in DOMAIN session_state)
          => session_state["video_path"] \in DOMAIN disk
    /\ \A p \in DOMAIN log.unlinks : log.unlinks[p] <= 1
    /\ app.swallowed > 0 => app.raised \in {"none"}

\* C11: when analyze_frames or extract_metadata has returned, the capture it
\* created has been released if it held an open container.
C11_HandlesReleased ==
    /\ (af.pc = "done" /\ video.opened) => af.released = af.opened
    /\ (md.pc = "done" /\ container.opened) => md.released = md.opened

\* C12: while the session holds a report whose metadata section is the
\* failure value, the report carries the hash and the altered frames and no
\* script run has ended in an exception.
C12_PartialReport ==
    ("report" \in DOMAIN session_state
        /\ "error" \in DOMAIN session_state["report"].metadata)
        => /\ {"hash", "altered_frames"} \subseteq DOMAIN session_state["report"]
           /\ Len(session_state["report"].hash) = 8
           /\ app.raised = "none"

\* C13: a call whose threshold lies outside [0, 1] (outside 0..100
\* hundredths) is rejected before any frame is decoded: it reads no frame
\* and flags none.
C13_ThresholdRejected ==
    (threshold < 0 \/ threshold > 100) => af.reads = 0 /\ af.altered_frames = <<>>

\* byte k (0 the least significant) of a 32-bit tag
TagByte(fourcc_int, k) ==
    IF k = 0 THEN fourcc_int % 256
    ELSE IF k = 1 THEN (fourcc_int \div 256) % 256
    ELSE IF k = 2 THEN (fourcc_int \div 65536) % 256
    ELSE (fourcc_int \div 16777216) % 256

\* C14: the codec string extract_metadata returns has exactly 4 characters,
\* character k being the one whose code is byte k of the tag counted from
\* the least significant byte, and each is a printable character.
C14_CodecFourPrintable ==
    (md.pc = "done" /\ "codec" \in DOMAIN md.result) =>
        /\ Len(md.result.codec) = 4
        /\ \A k \in 0..3 : md.result.codec[k + 1] = TagByte(container.fourcc, k)
        /\ \A k \in 1..4 : md.result.codec[k] \in 32..126

\* the frames the scan covers: those the header counts and the file decodes
Scanned(v) == IF CapFrameCount(v) <= 0 THEN 0 ELSE Min(CapFrameCount(v), Len(v.frames))

\* diff(i - 1, i) computed on its own: frames i - 1 and i converted and
\* compared with no state carried over from any other pair
PairDiff(v, i, thr) ==
    ExceedsThreshold(absdiff(cvtColor(CapReadFrame(v, i)), cvtColor(CapReadFrame(v, i - 1))), thr)

\* the orders in which m pairs may complete: every permutation for m <= 4,
\* for longer videos the index order, its reverse and the odd pairs first
Orders(m) ==
    IF m <= 4
    THEN {o \in [1..m -> 1..m] : Range(o) = 1..m}
    ELSE {[k \in 1..m |-> k], [k \in 1..m |-> m + 1 - k],
          [k \in 1..m |-> IF 2 * k - 1 <= m THEN 2 * k - 1 ELSE 2 * (k - (m + 1) \div 2)]}

\* the flagged indices in the order the pairs complete
RECURSIVE Collected(_, _, _, _)
Collected(v, o, k, thr) ==
    IF k = 0 THEN <<>>
    ELSE IF PairDiff(v, o[k], thr)
         THEN Append(Collected(v, o, k - 1, thr), o[k])
         ELSE Collected(v, o, k - 1, thr)

\* x inserted into the increasing list q
RECURSIVE Insert(_, _)
Insert(q, x) ==
    IF q = <<>> THEN <<x>>
    ELSE IF x <= Head(q) THEN <<x>> \o q
    ELSE <<Head(q)>> \o Insert(Tail(q), x)

\* q merged into index order
RECURSIVE MergeByIndex(_)
MergeByIndex(q) == IF q = <<>> THEN <<>> ELSE Insert(MergeByIndex(Tail(q)), Head(q))

\* the pairwise map over the pairs of v completing in order o, merged
PairwiseMap(v, o, thr) == MergeByIndex(Collected(v, o, Len(o), thr))

\* C15: what the sequential scan returns equals the pairwise map of
\* diff(i - 1, i) over i in 1..N-1, the pairs computed independently in any
\* order and the flagged indices merged into index order.
C15_ScanIsPairwiseMap ==
    af.pc = "done" =>
        \A o \in Orders(IF Scanned(video) = 0 THEN 0 ELSE Scanned(video) - 1) :
            af.result = PairwiseMap(video, o, threshold)

\* C15 witness: a finished scan that flagged a frame right after a flagged
\* frame, for which some completion order collects the indices out of
\* index order.
C15_Witness ==
    /\ af.pc = "done"
    /\ \E k \in 1..(Len(af.result) - 1) : af.result[k + 1] = af.result[k] + 1
    /\ \E o \in Orders(Scanned(video) - 1) :
           ~StrictlyIncreasing(Collected(video, o, Len(o), threshold))

\* x, or 0 when x is negative
AtLeastZero(x) == IF x < 0 THEN 0 ELSE x

\* a single-frame video is never flagged, and the score the report view
\* computes from the returned list and the frame count is positive, is the
\* unclamped 100 - n / frame_count * 100 and divides by a non-zero count
SingleFrameAndScore ==
    LET n == Len(af.result)
        fc == CapFrameCount(video)
    IN /\ (fc = 1 \/ Len(video.frames) = 1) => af.result = <<>>
       /\ IntegrityScore(n, fc).num > 0 /\ IntegrityScore(n, fc).den > 0
       /\ n > 0 => /\ fc > 0
                   /\ IntegrityScore(n, fc) = [num |-> 100 * fc - 100 * n, den |-> fc]

\* C16 as stated: the number of indices returned is at most the number of
\* decoded frames minus 1, which is at most frame_count - 1.
C16_AsStated ==
    af.pc = "done" =>
        /\ Len(af.result) <= af.i - 1
        /\ af.i - 1 <= af.frame_count - 1
        /\ SingleFrameAndScore

\* C16: when analyze_frames has returned, the number of indices returned is
\* at most the number of decoded frames minus 1 (0 when none decoded), which
\* is at most frame_count - 1 (0 when frame_count < 1); a single-frame video
\* is never flagged; the integrity score of the result is strictly positive,
\* unclamped, and divides by a non-zero frame count when the list is not empty.
C16_FlaggedBelowDecoded ==
    af.pc = "done" =>
        /\ Len(af.result) <= AtLeastZero(af.i - 1)
        /\ AtLeastZero(af.i - 1) <= AtLeastZero(af.frame_count - 1)
        /\ SingleFrameAndScore

\* C16 witness: a scan that decoded every frame of a video of 3 or more
\* frames and flagged every frame but frame 0.
C16_Witness ==
    /\ af.pc = "done"
    /\ af.i = af.frame_count
    /\ Len(af.result) = af.i - 1
    /\ Len(af.result) >= 2

====
